---- MODULE Spec2Model ----
(***************************************************************************)
(* Role-based access control of the remote MCP server:                     *)
(* src/src/rolePermissions.ts (the permission store, the evaluators and    *)
(* the pattern matcher), the get_role tool of src/src/tools/get-role.ts,   *)
(* the worker of src/src/index.ts (role resolution, the agent and its      *)
(* tools) and the homepage of src/unnamed/part_001.                        *)
(*                                                                         *)
(* JavaScript strings are TLA+ strings (Len, \o and SubSeq act on them).   *)
(* Every other JavaScript value is a record tagged by its type in field t. *)
(***************************************************************************)
EXTENDS Integers, Sequences, FiniteSets, TLC

VARIABLES store, call, result, memo, session, page, peer

vars == <<store, call, result, memo, session, page, peer>>

(***************************************************************************)
(* Bounds of the model.                                                    *)
(***************************************************************************)
\* longest generated text / pattern handed to matchPattern
MaxLen == 3
\* longest generated suffix appended to a dataset name to form a dataset-table
MaxSuffix == 2
\* longest allowed / denied list of a drawn schema-rules object
MaxPatterns == 2

(***************************************************************************)
(* JavaScript values.                                                      *)
(***************************************************************************)
Undefined == [t |-> "undefined"]
Null == [t |-> "null"]
Bool(b) == [t |-> "boolean", b |-> b]
Str(s) == [t |-> "string", s |-> s]
Arr(items) == [t |-> "array", items |-> items]
Obj(own) == [t |-> "object", own |-> own]
Fn(name) == [t |-> "function", name |-> name]

\* An object literal with no property: schemas: { }.
NoProperties == [k \in {} |-> Undefined]

\* Object.prototype, which every object literal and every function inherits
\* from: its own properties are the built-in methods.
ObjectPrototype ==
    [t |-> "prototype",
     own |-> [constructor |-> Fn("Object"),
              toString |-> Fn("toString"),
              toLocaleString |-> Fn("toLocaleString"),
              valueOf |-> Fn("valueOf"),
              hasOwnProperty |-> Fn("hasOwnProperty"),
              isPrototypeOf |-> Fn("isPrototypeOf"),
              propertyIsEnumerable |-> Fn("propertyIsEnumerable")]
             @@ ("__defineGetter__" :> Fn("__defineGetter__"))
             @@ ("__defineSetter__" :> Fn("__defineSetter__"))
             @@ ("__lookupGetter__" :> Fn("__lookupGetter__"))
             @@ ("__lookupSetter__" :> Fn("__lookupSetter__"))]

\* obj[key] / obj.key of JavaScript: an own property, else the property
\* inherited along the prototype chain, else undefined.  The code reads no
\* own property of a function (name, length, prototype), so a function has
\* only what it inherits.
Get(obj, key) ==
    IF obj.t \in {"object", "prototype"} /\ key \in DOMAIN obj.own
    THEN obj.own[key]
    ELSE IF key = "__proto__"
    THEN (IF obj.t = "prototype" THEN Null
          ELSE IF obj.t = "function" THEN Fn("Function.prototype")
          ELSE ObjectPrototype)
    ELSE IF obj.t \in {"object", "function"} /\ key \in DOMAIN ObjectPrototype.own
    THEN ObjectPrototype.own[key]
    ELSE Undefined

\* ToBoolean of JavaScript.
Truthy(v) ==
    CASE v.t = "undefined" -> FALSE
      [] v.t = "null" -> FALSE
      [] v.t = "boolean" -> v.b
      [] v.t = "string" -> v.s # ""
      [] OTHER -> TRUE

\* a || b
Or(a, b) == IF Truthy(a) THEN a ELSE b

\* Array.prototype.includes on an array of strings.
Includes(items, x) == \E i \in 1..Len(items) : items[i] = x

\* String.prototype.startsWith and endsWith.
StartsWith(text, prefix) ==
    /\ Len(text) >= Len(prefix)
    /\ SubSeq(text, 1, Len(prefix)) = prefix

EndsWith(text, suffix) ==
    /\ Len(text) >= Len(suffix)
    /\ SubSeq(text, Len(text) - Len(suffix) + 1, Len(text)) = suffix

\* How a call ends.
Return(v) == [kind |-> "return", value |-> v]
Throw(e) == [kind |-> "throw", value |-> [t |-> e]]

(***************************************************************************)
(* The permission store.                                                   *)
(***************************************************************************)
\* The store with the viewer entry as the homepage's role table has it.
ROLE_PERMISSIONS_homepageViewer ==
    Obj([admin |->
           Obj([tools |-> Arr(<<"get_role", "get_user_data", "get_schema_table_view",
                                "execute_query", "upload_dashboard", "list_dashboards",
                                "get_dashboard">>),
                resources |-> Arr(<<"bigquery_catalog">>),
                schemas |-> Obj(NoProperties)]),
         analyst |->
           Obj([tools |-> Arr(<<"get_role", "get_schema_table_view", "execute_query",
                                "upload_dashboard", "list_dashboards", "get_dashboard">>),
                resources |-> Arr(<<"bigquery_catalog">>),
                schemas |-> Obj([denied |-> Arr(<<"Users.*">>)])]),
         viewer |->
           Obj([tools |-> Arr(<<"get_role", "list_dashboards", "get_dashboard">>),
                resources |-> Arr(<<"bigquery_catalog">>),
                schemas |->
                  Obj([allowed |-> Arr(<<"products.*",
                                         "Flowdata.daily_sku_performance_90d",
                                         "Flowdata.daily_orders_aggregation",
                                         "Vendor.availability_summary">>),
                       fieldFilters |->
                         Obj("Vendor.Revenue" :>
                               Obj([mode |-> Str("exclude"),
                                    fields |-> Arr(<<"Sourcing___Shipped_Revenue">>)]))])]),
         guest |->
           Obj([tools |-> Arr(<<"get_role">>),
                resources |-> Arr(<<>>),
                schemas |-> Obj([denied |-> Arr(<<"*">>)])]),
         no_role_assigned |->
           Obj([tools |-> Arr(<<"get_role", "get_user_data", "get_schema_table_view",
                                "execute_query", "upload_dashboard", "list_dashboards",
                                "get_dashboard">>),
                resources |-> Arr(<<"bigquery_catalog">>),
                schemas |-> Obj(NoProperties)])])

ROLE_PERMISSIONS ==
    Obj([admin |->
           Obj([tools |-> Arr(<<"get_role", "get_user_data", "get_schema_table_view",
                                "execute_query", "upload_dashboard", "list_dashboards",
                                "get_dashboard">>),
                resources |-> Arr(<<"bigquery_catalog">>),
                schemas |-> Obj(NoProperties)]),
         analyst |->
           Obj([tools |-> Arr(<<"get_role", "get_schema_table_view", "execute_query",
                                "upload_dashboard", "list_dashboards", "get_dashboard">>),
                resources |-> Arr(<<"bigquery_catalog">>),
                schemas |-> Obj([denied |-> Arr(<<"Users.*">>)])]),
         viewer |->
           Obj([tools |-> Arr(<<"get_role", "get_schema_table_view", "execute_query",
                                "list_dashboards", "get_dashboard">>),
                resources |-> Arr(<<"bigquery_catalog">>),
                schemas |->
                  Obj([allowed |-> Arr(<<"products.*",
                                         "Flowdata.daily_sku_performance_90d",
                                         "Flowdata.daily_orders_aggregation",
                                         "Vendor.availability_summary">>),
                       fieldFilters |->
                         Obj("Vendor.Revenue" :>
                               Obj([mode |-> Str("exclude"),
                                    fields |-> Arr(<<"Sourcing___Shipped_Revenue">>)]))])]),
         guest |->
           Obj([tools |-> Arr(<<"get_role">>),
                resources |-> Arr(<<>>),
                schemas |-> Obj([denied |-> Arr(<<"*">>)])]),
         no_role_assigned |->
           Obj([tools |-> Arr(<<"get_role", "get_user_data", "get_schema_table_view",
                                "execute_query", "upload_dashboard", "list_dashboards",
                                "get_dashboard">>),
                resources |-> Arr(<<"bigquery_catalog">>),
                schemas |-> Obj(NoProperties)])])

(***************************************************************************)
(* The pattern matcher and the evaluators.                                 *)
(***************************************************************************)
\* matchPattern with the dot boundary dropped: text.startsWith(prefix).
matchPattern_naivePrefix(text, pattern) ==
    IF pattern = "*" THEN TRUE
    ELSE IF EndsWith(pattern, ".*")
    THEN LET prefix == SubSeq(pattern, 1, Len(pattern) - 2)
         IN  StartsWith(text, prefix)
    ELSE text = pattern

matchPattern(text, pattern) ==
    IF pattern = "*" THEN TRUE
    ELSE IF EndsWith(pattern, ".*")
    THEN LET prefix == SubSeq(pattern, 1, Len(pattern) - 2)
         IN  StartsWith(text, prefix \o ".")
    ELSE text = pattern

\* permissionsOf falling back to the permissive default entry.
permissionsOf_permissiveFallback(role) ==
    Or(Get(store, role), Get(store, "no_role_assigned"))

\* const permissions = ROLE_PERMISSIONS[role] || ROLE_PERMISSIONS['guest'];
permissionsOf(role) == Or(Get(store, role), Get(store, "guest"))

\* permissions.tools.includes(toolName): a TypeError when permissions.tools
\* is undefined.
hasToolPermission(role, toolName) ==
    LET tools == Get(permissionsOf(role), "tools")
    IN  IF tools.t = "array"
        THEN Return(Bool(Includes(tools.items, toolName)))
        ELSE Throw("TypeError")

hasResourcePermission(role, resourceName) ==
    LET resources == Get(permissionsOf(role), "resources")
    IN  IF resources.t = "array"
        THEN Return(Bool(Includes(resources.items, resourceName)))
        ELSE Throw("TypeError")

\* for (const pattern of list) if (matchPattern(datasetTable, pattern)) ...
anyMatch(list, datasetTable) ==
    \E i \in 1..Len(list.items) : matchPattern(datasetTable, list.items[i])

\* hasSchemaPermission with the allowed list consulted before the denied
\* list.
hasSchemaPermission_allowedFirst(role, datasetTable) ==
    LET schemas == Get(permissionsOf(role), "schemas")
    IN  IF ~Truthy(schemas) THEN Return(Bool(TRUE))
        ELSE LET denied == Get(schemas, "denied")
                 allowed == Get(schemas, "allowed")
             IN  IF Truthy(allowed) /\ anyMatch(allowed, datasetTable)
                 THEN Return(Bool(TRUE))
                 ELSE IF Truthy(denied) /\ anyMatch(denied, datasetTable)
                 THEN Return(Bool(FALSE))
                 ELSE Return(Bool(~Truthy(allowed)))

\* hasSchemaPermission without the 'return false; // Not in allowed list'
\* after the allowed loop.
hasSchemaPermission_openWorld(role, datasetTable) ==
    LET schemas == Get(permissionsOf(role), "schemas")
    IN  IF ~Truthy(schemas) THEN Return(Bool(TRUE))
        ELSE LET denied == Get(schemas, "denied")
             IN  IF Truthy(denied) /\ anyMatch(denied, datasetTable)
                 THEN Return(Bool(FALSE))
                 ELSE Return(Bool(TRUE))

\* hasSchemaPermission refusing where no rule applies: 'return false' for
\* absent rules and at the end.
hasSchemaPermission_denyByDefault(role, datasetTable) ==
    LET schemas == Get(permissionsOf(role), "schemas")
    IN  IF ~Truthy(schemas) THEN Return(Bool(FALSE))
        ELSE LET denied == Get(schemas, "denied")
                 allowed == Get(schemas, "allowed")
             IN  IF Truthy(denied) /\ anyMatch(denied, datasetTable)
                 THEN Return(Bool(FALSE))
                 ELSE IF Truthy(allowed)
                 THEN Return(Bool(anyMatch(allowed, datasetTable)))
                 ELSE Return(Bool(FALSE))

\* hasSchemaPermission refusing at the end, where no allowed list is
\* configured.
hasSchemaPermission_closedWithoutAllowList(role, datasetTable) ==
    LET schemas == Get(permissionsOf(role), "schemas")
    IN  IF ~Truthy(schemas) THEN Return(Bool(TRUE))
        ELSE LET denied == Get(schemas, "denied")
                 allowed == Get(schemas, "allowed")
             IN  IF Truthy(denied) /\ anyMatch(denied, datasetTable)
                 THEN Return(Bool(FALSE))
                 ELSE IF Truthy(allowed)
                 THEN Return(Bool(anyMatch(allowed, datasetTable)))
                 ELSE Return(Bool(FALSE))

hasSchemaPermission(role, datasetTable) ==
    LET schemas == Get(permissionsOf(role), "schemas")
    IN  IF ~Truthy(schemas) THEN Return(Bool(TRUE))
        ELSE LET denied == Get(schemas, "denied")
                 allowed == Get(schemas, "allowed")
             IN  IF Truthy(denied) /\ anyMatch(denied, datasetTable)
                 THEN Return(Bool(FALSE))
                 ELSE IF Truthy(allowed)
                 THEN Return(Bool(anyMatch(allowed, datasetTable)))
                 ELSE Return(Bool(TRUE))

\* permissions.schemas?.fieldFilters?.[datasetTable] || null
getFieldFilter(role, datasetTable) ==
    LET schemas == Get(permissionsOf(role), "schemas")
        fieldFilters == IF schemas.t \in {"undefined", "null"} THEN Undefined
                        ELSE Get(schemas, "fieldFilters")
        filter == IF fieldFilters.t \in {"undefined", "null"} THEN Undefined
                  ELSE Get(fieldFilters, datasetTable)
    IN  Return(Or(filter, Null))

descriptions ==
    Obj([admin |-> Str("Full administrative access to all tools and data"),
         analyst |-> Str("Can query data and manage dashboards, no user management"),
         viewer |-> Str("Read-only access to dashboards and limited data"),
         guest |-> Str("Minimal access, authentication required for more features"),
         no_role_assigned |-> Str("No role assigned, minimal access")])

getRoleDescription(role) ==
    Return(Or(Get(descriptions, role), Str("Unknown role")))

\* return permissions.tools;
getAllowedTools(role) == Return(Get(permissionsOf(role), "tools"))

(***************************************************************************)
(* The get_role tool.                                                      *)
(***************************************************************************)
\* ${value} inside a template literal: String(value).
toStr(v) ==
    CASE v.t = "string" -> v.s
      [] v.t = "function" -> "function " \o v.name \o "() { [native code] }"
      [] v.t = "undefined" -> "undefined"
      [] v.t = "null" -> "null"
      [] OTHER -> "[object Object]"

\* allowedTools.map(tool => `- ${tool}`)
RECURSIVE toolLines(_)
toolLines(items) ==
    IF items = <<>> THEN <<>>
    ELSE <<"- " \o Head(items)>> \o toolLines(Tail(items))

\* lines.join('\n')
RECURSIVE join(_)
join(lines) ==
    IF lines = <<>> THEN ""
    ELSE IF Len(lines) = 1 THEN lines[1]
    ELSE lines[1] \o "\n" \o join(Tail(lines))

\* getRoleTool.handler(params, context): the text of its one content item,
\* or the error the handler's promise rejects with (allowedTools.map is a
\* TypeError when allowedTools is undefined).
getRoleTool_handler(context) ==
    LET authStatus == IF Truthy(context.authToken) THEN "Authenticated"
                      ELSE "Not authenticated"
        allowedTools == getAllowedTools(context.role).value
        roleDescription == getRoleDescription(context.role).value
    IN  IF allowedTools.t # "array" THEN Throw("TypeError")
        ELSE Return(Str("Current MCP Server Role: " \o context.role
                        \o "\nAuthentication Status: " \o authStatus
                        \o "\nRole Description: " \o toStr(roleDescription)
                        \o "\n\nAvailable Tools:\n"
                        \o join(toolLines(allowedTools.items))))

(***************************************************************************)
(* The inputs the calls are made with.                                     *)
(***************************************************************************)
\* every string over alphabet of length at most n
RECURSIVE Strs(_, _)
Strs(alphabet, n) ==
    IF n = 0 THEN {""}
    ELSE Strs(alphabet, n - 1)
         \cup {s \o c : s \in Strs(alphabet, n - 1), c \in alphabet}

ConfiguredRoles == {"admin", "analyst", "viewer", "guest", "no_role_assigned"}

\* names Object.prototype defines
InheritedNames == {"constructor", "__proto__", "toString", "hasOwnProperty"}

RoleInputs ==
    ConfiguredRoles \cup {"", "Admin", "guests", "superuser"} \cup InheritedNames

AllTools ==
    {"get_role", "get_user_data", "get_schema_table_view", "execute_query",
     "upload_dashboard", "list_dashboards", "get_dashboard"}

ToolInputs ==
    AllTools \cup {"", "*", "get_*", "get_rol", "get_roles", "GET_ROLE",
                   "bigquery_catalog", "constructor"}

ResourceInputs ==
    {"bigquery_catalog", "", "*", "bigquery", "bigquery_catalogs",
     "BIGQUERY_CATALOG", "get_role", "toString"}

DatasetNames == {"", "products", "Users", "UsersArchive", "Flowdata", "Vendor"}

NamedTables ==
    {"products.anything", "products.Produkt", "Products.Produkt",
     "Flowdata.daily_sku_performance_90d", "Flowdata.daily_orders_aggregation",
     "Flowdata.daily_orders_aggregation2", "flowdata.daily_orders_aggregation",
     "Flowdata.other_table", "Vendor.availability_summary",
     "Vendor.availability_summary.x", "Vendor.Revenue", "Vendor.Revenues",
     "Vendor.revenue", "Users.Accounts", "UsersArchive.Accounts",
     "no_dot", "*"} \cup InheritedNames

TableInputs ==
    NamedTables
    \cup {d \o s : d \in DatasetNames, s \in Strs({".", "x", "*"}, MaxSuffix)}

PatternInputs ==
    Strs({"a", ".", "*"}, MaxLen)
    \cup {"Users.*", "Users.Accounts", "Users.Account", "UsersArchive.Accounts",
          "users.accounts", "Users.", "Users", "anything"}

AuthTokens == {Undefined, Str(""), Str("token")}

(***************************************************************************)
(* The MCP server of src/src/index.ts: the agent class MyMCP, its tools,   *)
(* and the request handler that resolves the role and mounts the agent.    *)
(***************************************************************************)
FASTAPI_BASE_URL == "https://fast-api-165560968031.europe-west3.run.app"

\* a number in a template literal
RECURSIVE decimal(_)
decimal(n) ==
    LET digit == SubSeq("0123456789", (n % 10) + 1, (n % 10) + 1)
    IN  IF n < 10 THEN digit ELSE decimal(n \div 10) \o digit

\* encodeURIComponent over the characters of the dashboard names drawn
RECURSIVE encodeURIComponent(_)
encodeURIComponent(text) ==
    IF text = "" THEN ""
    ELSE LET c == SubSeq(text, 1, 1)
             e == CASE c = " " -> "%20"
                    [] c = "/" -> "%2F"
                    [] c = "?" -> "%3F"
                    [] OTHER -> c
         IN  e \o encodeURIComponent(SubSeq(text, 2, Len(text)))

\* lines.join(separator)
RECURSIVE joinWith(_, _)
joinWith(lines, separator) ==
    IF lines = <<>> THEN ""
    ELSE IF Len(lines) = 1 THEN lines[1]
    ELSE lines[1] \o separator \o joinWith(Tail(lines), separator)

\* JSON.stringify(result, null, 2) of an array of strings
stringify(names) ==
    IF names = <<>> THEN "[]"
    ELSE "[\n"
         \o joinWith([i \in 1..Len(names) |-> "  \"" \o names[i] \o "\""], ",\n")
         \o "\n]"

\* What the backend answers to one request: a body (here the names it
\* lists, the fields of a schema, the name and the URL of a dashboard, a
\* user), a status that is
\* not ok with an error body (detail "" stands for the body {}, which has
\* no detail), a body that is no JSON (with an ok status or not), or no
\* answer at all (fetch rejects).
BackendReplies ==
    {[kind |-> "ok", names |-> names, name |-> "sales", url |-> "https://storage/sales.html",
      fields |-> <<"Vendor", "Sourcing___Shipped_Revenue">>,
      user |-> [FirstName |-> "Ada", LastName |-> "Lovelace",
                Email |-> "ada@example.com", Role |-> "analyst"]] :
        names \in {<<>>, <<"sales">>, <<"sales", "stock">>}}
    \cup {[kind |-> "status", status |-> status, detail |-> detail] :
            status \in {401, 404, 500}, detail \in {"", "boom", "token 404"}}
    \cup {[kind |-> "unparsable", status |-> status] : status \in {200, 502}}
    \cup {[kind |-> "network", message |-> "fetch failed"]}

\* response.ok
ok(reply) == reply.kind = "ok" \/ (reply.kind = "unparsable" /\ reply.status = 200)

\* the message of the SyntaxError of response.json()
ParseMessage == "Unexpected token < in JSON at position 0"

\* JSON.stringify(data) of an error body
stringifyError(detail) ==
    IF detail = "" THEN "{}" ELSE "{\"detail\":\"" \o detail \o "\"}"

\* callFastAPI with the response.ok test left out.
callFastAPI_unchecked(reply) ==
    CASE reply.kind \in {"ok", "status"} -> [kind |-> "return", value |-> reply]
      [] reply.kind = "unparsable" ->
            [kind |-> "throw", message |-> "Failed to call FastAPI: " \o ParseMessage]
      [] reply.kind = "network" ->
            [kind |-> "throw",
             message |-> "Failed to call FastAPI: " \o reply.message]

\* callFastAPI: the parsed body, or an Error whose message starts with
\* 'Failed to call FastAPI: '.  response.json() runs before the
\* response.ok test.
callFastAPI(reply) ==
    CASE reply.kind = "ok" -> [kind |-> "return", value |-> reply]
      [] reply.kind = "unparsable" ->
            [kind |-> "throw", message |-> "Failed to call FastAPI: " \o ParseMessage]
      [] reply.kind = "status" ->
            [kind |-> "throw",
             message |-> "Failed to call FastAPI: API Error: " \o decimal(reply.status)
                         \o " - " \o stringifyError(reply.detail)]
      [] reply.kind = "network" ->
            [kind |-> "throw",
             message |-> "Failed to call FastAPI: " \o reply.message]

\* JSON.stringify(body) of the bodies drawn: null, or an object with a query
stringifyBody(body) ==
    IF body.t = "object" THEN "{\"query\":\"" \o body.own.query.s \o "\"}"
    ELSE toStr(body)

\* callFastAPI: the request it makes; method defaults to "GET"; the body
\* is sent if (body && method !== "GET")
callFastAPI_options(endpoint, method, body) ==
    LET m == IF method = Undefined THEN "GET" ELSE method.s
    IN  [url |-> FASTAPI_BASE_URL \o endpoint,
         method |-> m,
         body |-> IF Truthy(body) /\ m # "GET" THEN Str(stringifyBody(body))
                  ELSE Undefined]

\* a tool result with one text content, and the backend requests made
ToolResult(text, requests) ==
    [response |-> [kind |-> "result", text |-> text], requests |-> requests]

Request(method, endpoint) == [method |-> method, url |-> FASTAPI_BASE_URL \o endpoint]

\* this.server.tool("get_role", ...)
tool_get_role(agent) ==
    ToolResult("Current MCP Server Role: " \o agent.role, <<>>)

\* this.server.tool("get_schema_table_view", ...); include_description has
\* its default, true
tool_get_schema_table_view(dataset_with_table, reply) ==
    LET fullEndpoint == "/bigquery/schema/" \o dataset_with_table
                        \o "?include_description=true"
        answer == callFastAPI(reply)
    IN  ToolResult(IF answer.kind = "return"
                   THEN stringify(answer.value.fields)
                   ELSE "Failed to get schema: " \o answer.message,
                   <<Request("GET", fullEndpoint)>>)

\* the execute_query handler without its try / catch: the Error of
\* callFastAPI leaves the handler.
tool_execute_query_uncaught(query, reply) ==
    LET answer == callFastAPI(reply)
    IN  IF answer.kind = "return"
        THEN ToolResult(stringify(answer.value.names),
                        <<Request("POST", "/bigquery/execute_query")>>)
        ELSE [response |-> [kind |-> "exception", text |-> answer.message],
              requests |-> <<Request("POST", "/bigquery/execute_query")>>]

\* this.server.tool("execute_query", ...)
tool_execute_query(query, reply) ==
    LET answer == callFastAPI(reply)
    IN  ToolResult(IF answer.kind = "return"
                   THEN stringify(answer.value.names)
                   ELSE "Failed to execute query: " \o answer.message,
                   <<Request("POST", "/bigquery/execute_query")>>)

\* this.server.tool("upload_dashboard", ...): fetch directly
tool_upload_dashboard(filename, reply) ==
    LET failed == "Upload failed with status "
    IN  ToolResult(
            CASE reply.kind = "ok" ->
                   "Dashboard uploaded successfully!\n\nPublic URL: " \o reply.url
                   \o "\n\nThe dashboard is now accessible at the URL above."
              [] reply.kind = "status" ->
                   "Failed to upload dashboard: "
                   \o (IF reply.detail # "" THEN reply.detail
                       ELSE failed \o decimal(reply.status))
              [] reply.kind = "unparsable" ->
                   "Failed to upload dashboard: "
                   \o (IF ok(reply) THEN ParseMessage
                       ELSE failed \o decimal(reply.status))
              [] reply.kind = "network" ->
                   "Failed to upload dashboard: " \o reply.message,
            <<Request("POST", "/storage/upload-html")>>)

\* this.server.tool("list_dashboards", ...); directory has its default
tool_list_dashboards(reply) ==
    LET answer == callFastAPI(reply)
        names == answer.value.names
        dashboardList ==
            joinWith([i \in 1..Len(names) |-> decimal(i) \o ". " \o names[i]], "\n")
    IN  ToolResult(IF answer.kind = "throw"
                   THEN "Failed to list dashboards: " \o answer.message
                   ELSE IF Len(names) > 0
                   THEN "Available dashboards:\n\n" \o dashboardList
                        \o "\n\nTotal: " \o decimal(Len(names)) \o " dashboard(s)"
                   ELSE "No dashboards found in the specified directory.",
                   <<Request("GET", "/storage/list-dashboards")>>)

\* this.server.tool("get_dashboard", ...); directory has its default
tool_get_dashboard(dashboard_name, reply) ==
    LET endpoint == "/storage/dashboard/" \o encodeURIComponent(dashboard_name)
        answer == callFastAPI(reply)
    IN  ToolResult(IF answer.kind = "return"
                   THEN "Dashboard: " \o answer.value.name \o "\n\nPublic URL: "
                        \o answer.value.url
                        \o "\n\nThe dashboard has been retrieved successfully. The HTML content is available for viewing or editing."
                   ELSE "Failed to get dashboard: " \o answer.message,
                   <<Request("GET", endpoint)>>)

\* JSON.stringify of a string: the quotes and backslashes in it escaped
RECURSIVE escaped(_)
escaped(text) ==
    IF text = "" THEN ""
    ELSE LET c == SubSeq(text, 1, 1)
         IN  (IF c = "\"" \/ c = "\\" THEN "\\" \o c ELSE c)
             \o escaped(SubSeq(text, 2, Len(text)))

\* this.server.resource("bigquery_catalog", ...): the catalog, or the error
\* object JSON.stringify({error, message}, null, 2)
resource_bigquery_catalog(reply) ==
    LET answer == callFastAPI(reply)
    IN  [response |->
            [kind |-> "contents",
             text |-> IF answer.kind = "return"
                      THEN stringify(answer.value.names)
                      ELSE "{\n  \"error\": \"Could not fetch BigQuery catalog\",\n  \"message\": \""
                           \o escaped(answer.message) \o "\"\n}"],
         requests |-> <<Request("GET", "/bigquery/list_datasets_tables")>>]

\* the code fence of three grave accents, a character TLA+ strings cannot
\* hold
Fence == "~~~"

\* this.server.prompt("BI Analyst & Dashboard Builder", ...): basePrompt
\* opens with one sentence, then holds catalogData; the fixed text after it
\* (the Chart.js reference and the guidelines) is stood for by its last
\* line.
prompt_biAnalyst(reply) ==
    LET answer == callFastAPI(reply)
        catalogData ==
            IF answer.kind = "return"
            THEN "\n\n**Available BigQuery Datasets and Tables:**\n" \o Fence \o "json\n"
                 \o stringify(answer.value.names)
                 \o "\n" \o Fence \o "\n\nUse this catalog information to understand what data is available for analysis and dashboard creation.\n"
            ELSE "\n\n**Note:** Unable to fetch BigQuery catalog. Use the bigquery_catalog resource to discover available datasets and tables.\n"
    IN  [response |->
            [kind |-> "messages",
             text |-> "You are an expert data analyst and dashboard builder specializing in BigQuery and business intelligence."
                      \o catalogData
                      \o "\n- When creating dashboards, prioritize user experience and data storytelling"],
         requests |-> <<Request("GET", "/bigquery/list_datasets_tables")>>]

\* A tools/call request: the handler registered under the name runs; a name
\* that was never registered has no handler, and the server answers with a
\* protocol error.
callTool(agent, toolName, argument, reply) ==
    IF ~Includes(agent.tools, toolName)
    THEN [response |-> [kind |-> "protocol_error", text |-> "Tool " \o toolName \o " not found"],
          requests |-> <<>>]
    ELSE CASE toolName = "get_role" -> tool_get_role(agent)
           [] toolName = "get_schema_table_view" ->
                tool_get_schema_table_view(argument, reply)
           [] toolName = "execute_query" -> tool_execute_query(argument, reply)
           [] toolName = "upload_dashboard" -> tool_upload_dashboard(argument, reply)
           [] toolName = "list_dashboards" -> tool_list_dashboards(reply)
           [] toolName = "get_dashboard" -> tool_get_dashboard(argument, reply)

(***************************************************************************)
(* The tools of src/src/tools and src/unnamed/part_002, which are handed a *)
(* context (callFastAPI, authToken, role).                                 *)
(***************************************************************************)
\* String.prototype.includes
includesText(text, part) ==
    \E i \in 1..(Len(text) - Len(part) + 1) : SubSeq(text, i, i + Len(part) - 1) = part

\* getSchemaTableViewTool.handler({ dataset_with_table }, context)
getSchemaTableViewTool_handler(dataset_with_table, context, reply) ==
    LET endpoint == "/bigquery/schema/" \o dataset_with_table
                    \o "?include_description=true"
        answer == callFastAPI(reply)
    IN  ToolResult(IF answer.kind = "return"
                   THEN stringify(answer.value.fields)
                   ELSE "Failed to get schema: " \o answer.message,
                   <<Request("GET", endpoint)>>)

\* getUserDataTool.handler without the test of context.authToken.
getUserDataTool_handler_tokenUnchecked(context, reply) ==
    LET answer == callFastAPI(reply)
        userData == answer.value.user
    IN  ToolResult(
            IF answer.kind = "return"
            THEN "User Information:\n- Name: " \o userData.FirstName \o " "
                 \o userData.LastName \o "\n- Email: " \o userData.Email
                 \o "\n- Role: " \o userData.Role
            ELSE IF includesText(answer.message, "404")
            THEN "Error: User not found. The provided token may be invalid."
            ELSE IF includesText(answer.message, "401")
            THEN "Error: Authentication failed. Please check your token configuration."
            ELSE "Error retrieving user data: " \o answer.message,
            <<Request("GET", "/bigquery/user")>>)

\* getUserDataTool.handler(params, context)
getUserDataTool_handler(context, reply) ==
    IF ~Truthy(context.authToken)
    THEN ToolResult("Error: No authentication token provided. Please configure MCP with an auth token.",
                    <<>>)
    ELSE LET answer == callFastAPI(reply)
             userData == answer.value.user
         IN  ToolResult(
                 IF answer.kind = "return"
                 THEN "User Information:\n- Name: " \o userData.FirstName \o " "
                      \o userData.LastName \o "\n- Email: " \o userData.Email
                      \o "\n- Role: " \o userData.Role
                 ELSE IF includesText(answer.message, "404")
                 THEN "Error: User not found. The provided token may be invalid."
                 ELSE IF includesText(answer.message, "401")
                 THEN "Error: Authentication failed. Please check your token configuration."
                 ELSE "Error retrieving user data: " \o answer.message,
                 <<Request("GET", "/bigquery/user")>>)

\* A new agent: protected role: string = "no_role_assigned", and a server
\* with nothing registered.
MyMCP ==
    [role |-> "no_role_assigned", tools |-> <<>>, prompts |-> <<>>, resources |-> <<>>]

setRole(agent, role) == [agent EXCEPT !.role = role]

\* MyMCP.init: the role is assigned, then every tool, the prompt and the
\* resource are registered.
MyMCP_init(agent) ==
    [agent EXCEPT
        !.role = "no_role_assigned",
        !.tools = @ \o <<"get_role", "get_schema_table_view", "execute_query",
                         "upload_dashboard", "list_dashboards", "get_dashboard">>,
        !.prompts = @ \o <<"BI Analyst & Dashboard Builder">>,
        !.resources = @ \o <<"bigquery_catalog">>]

\* DynamicMCP.init: this.setRole(role); await super.init();
DynamicMCP_init(agent, role) == MyMCP_init(setRole(agent, role))

\* The role the request handler resolves, with the environment's ROLE
\* as the last source before the default.
resolveRole_thenEnvironment(roleFromQuery, roleFromHeader, roleFromEnv) ==
    Or(Or(Or(roleFromQuery, roleFromHeader), roleFromEnv), Str("no_role_assigned")).s

\* const role = roleFromQuery || roleFromHeader || 'no_role_assigned';
resolveRole(roleFromQuery, roleFromHeader, roleFromEnv) ==
    Or(Or(roleFromQuery, roleFromHeader), Str("no_role_assigned")).s

\* The homepage: the role table it prints (All tools: the seven of its tool
\* list).
roleTable ==
    [admin |-> {"get_role", "get_user_data", "get_schema_table_view", "execute_query",
                "upload_dashboard", "list_dashboards", "get_dashboard"},
     analyst |-> {"get_role", "get_schema_table_view", "execute_query",
                  "upload_dashboard", "list_dashboards", "get_dashboard"},
     viewer |-> {"get_role", "list_dashboards", "get_dashboard"},
     guest |-> {"get_role"}]

\* allowedTools.join(', '): a TypeError when allowedTools is no array
homepage(query, header) ==
    LET role == Or(Or(query, header), Str("no_role_assigned")).s
        roleDescription == getRoleDescription(role).value
        allowedTools == getAllowedTools(role).value
    IN  IF allowedTools.t = "array"
        THEN [status |-> 200, role |-> role,
              roleDescription |-> toStr(roleDescription),
              allowedTools |-> joinWith(allowedTools.items, ", "),
              roleTable |-> roleTable]
        ELSE [status |-> 500, role |-> role]

\* What a request carries: the role query parameter (searchParams.get:
\* null when absent), the x-role header (null when absent) and the
\* environment's ROLE (undefined when not set).
RequestRoles == {"admin", "analyst", "viewer", "guest", "no_role_assigned", "superuser"}
QueryValues ==
    {Null, Str("")} \cup {Str(r) : r \in {"admin", "viewer", "guest", "superuser"}}
HeaderValues == {Null, Str("")} \cup {Str(r) : r \in {"analyst", "guest"}}
EnvValues == {Undefined, Str("admin")}
\* c.req.query('role') and c.req.header('x-role'): undefined when absent
HomepageValues ==
    {Undefined, Str("")} \cup {Str(r) : r \in RequestRoles \cup {"constructor"}}
ToolArguments == {"products.Produkt", "q1 sales"}
\* the backend's answers to the requests of a session
ServerReplies ==
    {r \in BackendReplies :
        \/ r.kind \in {"unparsable", "network"}
        \/ (r.kind = "ok" /\ Len(r.names) # 1)
        \/ (r.kind = "status" /\ <<r.status, r.detail>> \in {<<500, "boom">>, <<404, "">>})}
\* callFastAPI(endpoint, method = "GET", body?)
Methods == {Undefined, Str("GET"), Str("POST")}
Bodies == {Undefined, Null, Obj([query |-> Str("SELECT 1")])}

\* a call that has not run yet
Pending == [kind |-> "pending", value |-> Undefined]

\* No request yet; no page served yet; no earlier call remembered.
NoSession ==
    [pc |-> "idle", request |-> Null, role |-> "", agent |-> MyMCP,
     invoked |-> "", reply |-> Null, response |-> Null, requests |-> <<>>]
NoPage == [status |-> 0]
NoMemo == [call |-> Null, result |-> Pending]

(***************************************************************************)
(* The calls.  A behaviour is one call: Init draws the function and its    *)
(* arguments, the function's action runs it and records how it ends.  The  *)
(* evaluators read the store and write nothing.                            *)
(***************************************************************************)
Calls ==
    {[fn |-> "hasToolPermission", args |-> <<role, toolName>>] :
        role \in RoleInputs, toolName \in ToolInputs}
    \cup {[fn |-> "hasResourcePermission", args |-> <<role, resourceName>>] :
        role \in RoleInputs, resourceName \in ResourceInputs}
    \cup {[fn |-> "hasSchemaPermission", args |-> <<role, datasetTable>>] :
        role \in RoleInputs, datasetTable \in TableInputs}
    \cup {[fn |-> "getFieldFilter", args |-> <<role, datasetTable>>] :
        role \in RoleInputs, datasetTable \in TableInputs}
    \cup {[fn |-> "matchPattern", args |-> <<text, pattern>>] :
        text \in PatternInputs, pattern \in PatternInputs}
    \cup {[fn |-> "getRoleDescription", args |-> <<role>>] : role \in RoleInputs}
    \cup {[fn |-> "getAllowedTools", args |-> <<role>>] : role \in RoleInputs}
    \cup {[fn |-> "get_role", args |-> <<role, authToken>>] :
        role \in RoleInputs, authToken \in AuthTokens}
    \cup {[fn |-> "get_schema_table_view", args |-> <<role, datasetTable, reply>>] :
        role \in RoleInputs, datasetTable \in NamedTables, reply \in BackendReplies}
    \cup {[fn |-> "get_user_data", args |-> <<authToken, reply>>] :
        authToken \in AuthTokens, reply \in BackendReplies}
    \cup {[fn |-> "callFastAPI", args |-> <<"/bigquery/execute_query", method, body, reply>>] :
        method \in Methods, body \in Bodies, reply \in BackendReplies}

Init ==
    /\ store = ROLE_PERMISSIONS
    /\ call \in Calls
    /\ result = Pending
    /\ memo = NoMemo
    /\ session = NoSession
    /\ page = NoPage
    /\ peer = NoSession

\* the call drawn is to fn and has not run yet
Called(fn) == call.fn = fn /\ result.kind = "pending"

Call_hasToolPermission ==
    /\ Called("hasToolPermission")
    /\ result' = hasToolPermission(call.args[1], call.args[2])
    /\ UNCHANGED <<store, call, memo, session, page, peer>>

Call_hasResourcePermission ==
    /\ Called("hasResourcePermission")
    /\ result' = hasResourcePermission(call.args[1], call.args[2])
    /\ UNCHANGED <<store, call, memo, session, page, peer>>

Call_hasSchemaPermission ==
    /\ Called("hasSchemaPermission")
    /\ result' = hasSchemaPermission(call.args[1], call.args[2])
    /\ UNCHANGED <<store, call, memo, session, page, peer>>

Call_getFieldFilter ==
    /\ Called("getFieldFilter")
    /\ result' = getFieldFilter(call.args[1], call.args[2])
    /\ UNCHANGED <<store, call, memo, session, page, peer>>

Call_matchPattern ==
    /\ Called("matchPattern")
    /\ result' = Return(Bool(matchPattern(call.args[1], call.args[2])))
    /\ UNCHANGED <<store, call, memo, session, page, peer>>

Call_getRoleDescription ==
    /\ Called("getRoleDescription")
    /\ result' = getRoleDescription(call.args[1])
    /\ UNCHANGED <<store, call, memo, session, page, peer>>

\* getAllowedTools handing out the store's list by splice(0), which empties
\* the list in the store.
Call_getAllowedTools_splice ==
    /\ Called("getAllowedTools")
    /\ result' = getAllowedTools(call.args[1])
    /\ store' = LET role == IF call.args[1] \in DOMAIN store.own
                            THEN call.args[1] ELSE "guest"
                IN  [store EXCEPT !.own[role].own.tools = Arr(<<>>)]
    /\ UNCHANGED <<call, memo, session, page, peer>>

Call_getAllowedTools ==
    /\ Called("getAllowedTools")
    /\ result' = getAllowedTools(call.args[1])
    /\ UNCHANGED <<store, call, memo, session, page, peer>>

Call_get_role ==
    /\ Called("get_role")
    /\ result' = getRoleTool_handler([role |-> call.args[1],
                                      authToken |-> call.args[2]])
    /\ UNCHANGED <<store, call, memo, session, page, peer>>

Call_get_schema_table_view ==
    /\ Called("get_schema_table_view")
    /\ result' = Return(getSchemaTableViewTool_handler(
                            call.args[2],
                            [role |-> call.args[1], authToken |-> Undefined],
                            call.args[3]))
    /\ UNCHANGED <<store, call, memo, session, page, peer>>

Call_get_user_data ==
    /\ Called("get_user_data")
    /\ result' = Return(getUserDataTool_handler(
                            [role |-> "admin", authToken |-> call.args[1]],
                            call.args[2]))
    /\ UNCHANGED <<store, call, memo, session, page, peer>>

\* callFastAPI: the request it makes and how it ends
Call_callFastAPI ==
    /\ Called("callFastAPI")
    /\ result' = [kind |-> callFastAPI(call.args[4]).kind,
                  value |-> callFastAPI(call.args[4]),
                  request |-> callFastAPI_options(call.args[1], call.args[2],
                                                  call.args[3])]
    /\ UNCHANGED <<store, call, memo, session, page, peer>>

Next ==
    \/ Call_hasToolPermission
    \/ Call_hasResourcePermission
    \/ Call_hasSchemaPermission
    \/ Call_getFieldFilter
    \/ Call_matchPattern
    \/ Call_getRoleDescription
    \/ Call_getAllowedTools
    \/ Call_get_role
    \/ Call_get_schema_table_view
    \/ Call_get_user_data
    \/ Call_callFastAPI

Spec == Init /\ [][Next]_vars

(***************************************************************************)
(* The schema rules over drawn rule sets: the store is the reference       *)
(* configuration with the viewer's schemas replaced by a drawn             *)
(* schema-rules object (absent, empty, or with a denied and / or an        *)
(* allowed list), and the call is to hasSchemaPermission.                  *)
(***************************************************************************)
PatternPool == {"*", "a.*", "a.a"}

\* the lists of distinct patterns of at most n entries
PatternLists(n) ==
    UNION {{l \in [1..k -> PatternPool] :
               \A i, j \in 1..k : i # j => l[i] # l[j]} : k \in 0..n}

OptionalLists == {Undefined} \cup {Arr(l) : l \in PatternLists(MaxPatterns)}

SchemaObjects ==
    {Undefined}
    \cup {Obj((IF d.t = "array" THEN [denied |-> d] ELSE NoProperties)
              @@ (IF a.t = "array" THEN [allowed |-> a] ELSE NoProperties)) :
            d \in OptionalLists, a \in OptionalLists}

StoreWith(schemas) ==
    Obj([ROLE_PERMISSIONS.own EXCEPT
           !.viewer = Obj([ROLE_PERMISSIONS.own.viewer.own EXCEPT
                             !.schemas = schemas])])

RuleStores == {ROLE_PERMISSIONS} \cup {StoreWith(s) : s \in SchemaObjects}

RuleTables == TableInputs \cup Strs({"a", ".", "*"}, MaxLen)

InitRules ==
    /\ store \in RuleStores
    /\ call \in {[fn |-> "hasSchemaPermission", args |-> <<role, datasetTable>>] :
                    role \in ConfiguredRoles, datasetTable \in RuleTables}
    /\ result = Pending
    /\ memo = NoMemo
    /\ session = NoSession
    /\ page = NoPage
    /\ peer = NoSession

NextRules == Call_hasSchemaPermission

SpecRules == InitRules /\ [][NextRules]_vars

(***************************************************************************)
(* Sequences of calls: after a call has ended, any next call may be made;  *)
(* memo keeps one earlier call with its result.                            *)
(***************************************************************************)
SeqRoles == {"admin", "viewer", "guest", "superuser", "constructor"}

SeqCalls ==
    {[fn |-> "hasToolPermission", args |-> <<role, toolName>>] :
        role \in SeqRoles, toolName \in {"get_role", "execute_query", "no_tool"}}
    \cup {[fn |-> "hasResourcePermission", args |-> <<role, resourceName>>] :
        role \in SeqRoles, resourceName \in {"bigquery_catalog", "no_resource"}}
    \cup {[fn |-> "hasSchemaPermission", args |-> <<role, datasetTable>>] :
        role \in SeqRoles,
        datasetTable \in {"products.Produkt", "Users.Accounts", "no_dot"}}
    \cup {[fn |-> "getFieldFilter", args |-> <<role, datasetTable>>] :
        role \in SeqRoles, datasetTable \in {"Vendor.Revenue", "products.Produkt"}}
    \cup {[fn |-> "matchPattern", args |-> <<"Users.Accounts", pattern>>] :
        pattern \in {"Users.*", "*", "Users"}}
    \cup {[fn |-> "getRoleDescription", args |-> <<role>>] : role \in SeqRoles}
    \cup {[fn |-> "getAllowedTools", args |-> <<role>>] : role \in SeqRoles}
    \cup {[fn |-> "get_role", args |-> <<role, Str("token")>>] : role \in SeqRoles}
    \cup {[fn |-> "get_schema_table_view",
           args |-> <<"viewer", "Vendor.Revenue", reply>>] :
        reply \in {r \in BackendReplies : r.kind = "network"}}
    \cup {[fn |-> "get_user_data", args |-> <<Str(""), reply>>] :
        reply \in {r \in BackendReplies : r.kind = "network"}}
    \cup {[fn |-> "callFastAPI",
           args |-> <<"/bigquery/execute_query", Str("POST"), Null, reply>>] :
        reply \in {r \in BackendReplies : r.kind = "network"}}

InitSeq ==
    /\ store = ROLE_PERMISSIONS
    /\ call \in SeqCalls
    /\ result = Pending
    /\ memo = NoMemo
    /\ session = NoSession
    /\ page = NoPage
    /\ peer = NoSession

\* the call has ended; the caller may remember it, and makes another
NextCall ==
    /\ result.kind # "pending"
    /\ \E next \in SeqCalls, remember \in BOOLEAN :
          /\ call' = next
          /\ result' = Pending
          /\ memo' = IF remember THEN [call |-> call, result |-> result] ELSE memo
    /\ UNCHANGED <<store, session, page, peer>>

NextSeq == Next \/ NextCall

SpecSeq == InitSeq /\ [][NextSeq]_vars

(***************************************************************************)
(* The server.  A behaviour is one request: to /sse (the role is resolved  *)
(* and the agent class mounted, the client connects and the agent is       *)
(* initialised, tools are invoked any number of times), or to / (the       *)
(* homepage is served).  Requests share nothing but the store.             *)
(***************************************************************************)
NoCall == [fn |-> "none", args |-> <<>>]

InitServer ==
    /\ store = ROLE_PERMISSIONS
    /\ call = NoCall
    /\ result = Pending
    /\ memo = NoMemo
    /\ session = NoSession
    /\ page = NoPage
    /\ peer = NoSession

\* export default { async fetch(request, env, ctx) }
Fetch ==
    /\ session.pc = "idle"
    /\ page = NoPage
    /\ \E roleFromQuery \in QueryValues, roleFromHeader \in HeaderValues,
          roleFromEnv \in EnvValues :
          session' = [session EXCEPT
                        !.pc = "mounted",
                        !.request = [query |-> roleFromQuery,
                                     header |-> roleFromHeader,
                                     env |-> roleFromEnv],
                        !.role = resolveRole(roleFromQuery, roleFromHeader, roleFromEnv)]
    /\ UNCHANGED <<store, call, result, memo, page, peer>>

\* the client connects to /sse: a DynamicMCP is made and its init() runs
Connect ==
    /\ session.pc = "mounted"
    /\ session' = [session EXCEPT
                     !.pc = "ready",
                     !.agent = DynamicMCP_init(MyMCP, session.role)]
    /\ UNCHANGED <<store, call, result, memo, page, peer>>

\* the client calls a tool
Invoke ==
    /\ session.pc = "ready"
    /\ \E toolName \in AllTools, argument \in ToolArguments, reply \in ServerReplies :
          LET outcome == callTool(session.agent, toolName, argument, reply)
          IN  session' = [session EXCEPT
                            !.invoked = toolName,
                            !.reply = IF outcome.requests = <<>> THEN Null ELSE reply,
                            !.response = outcome.response,
                            !.requests = outcome.requests]
    /\ UNCHANGED <<store, call, result, memo, page, peer>>

\* the client reads the resource bigquery_catalog
ReadResource ==
    /\ session.pc = "ready"
    /\ Includes(session.agent.resources, "bigquery_catalog")
    /\ \E reply \in ServerReplies :
          LET outcome == resource_bigquery_catalog(reply)
          IN  session' = [session EXCEPT
                            !.invoked = "bigquery_catalog",
                            !.reply = reply,
                            !.response = outcome.response,
                            !.requests = outcome.requests]
    /\ UNCHANGED <<store, call, result, memo, page, peer>>

\* the client gets the prompt
GetPrompt ==
    /\ session.pc = "ready"
    /\ Includes(session.agent.prompts, "BI Analyst & Dashboard Builder")
    /\ \E reply \in ServerReplies :
          LET outcome == prompt_biAnalyst(reply)
          IN  session' = [session EXCEPT
                            !.invoked = "BI Analyst & Dashboard Builder",
                            !.reply = reply,
                            !.response = outcome.response,
                            !.requests = outcome.requests]
    /\ UNCHANGED <<store, call, result, memo, page, peer>>

\* app.get("/")
Homepage ==
    /\ session.pc = "idle"
    /\ page = NoPage
    /\ \E query \in HomepageValues, header \in HomepageValues :
          page' = [status |-> homepage(query, header).status,
                   request |-> [query |-> query, header |-> header],
                   html |-> homepage(query, header)]
    /\ UNCHANGED <<store, call, result, memo, session, peer>>

NextServer ==
    \/ Fetch
    \/ Connect
    \/ Invoke
    \/ ReadResource
    \/ GetPrompt
    \/ Homepage

SpecServer == InitServer /\ [][NextServer]_vars

(***************************************************************************)
(* Two requests served at once.  fetch runs once for each inbound request: *)
(* the const role and the class DynamicMCP are made anew in each run, so   *)
(* each request has its own agent; session is the first request, peer the  *)
(* second, and their steps interleave in every order.                      *)
(***************************************************************************)
PairQueryValues == {Null, Str("admin"), Str("guest")}
PairHeaderValues == {Null, Str("analyst")}
PairTools == {"get_role", "execute_query"}
PairReplies ==
    {r \in ServerReplies : r.kind = "network" \/ (r.kind = "ok" /\ r.names = <<>>)}

\* export default { async fetch(request, env, ctx) }: the request's session
\* once its role is resolved
fetch(s) ==
    {[s EXCEPT
        !.pc = "mounted",
        !.request = [query |-> roleFromQuery, header |-> roleFromHeader,
                     env |-> roleFromEnv],
        !.role = resolveRole(roleFromQuery, roleFromHeader, roleFromEnv)] :
     roleFromQuery \in PairQueryValues, roleFromHeader \in PairHeaderValues,
     roleFromEnv \in EnvValues}

\* the request's DynamicMCP is made and its init() runs
connect(s) == [s EXCEPT !.pc = "ready", !.agent = DynamicMCP_init(MyMCP, s.role)]

\* a tool of the request's agent is called
invoke(s) ==
    {LET outcome == callTool(s.agent, toolName, "q1 sales", reply)
     IN  [s EXCEPT
            !.invoked = toolName,
            !.reply = IF outcome.requests = <<>> THEN Null ELSE reply,
            !.response = outcome.response,
            !.requests = outcome.requests] :
     toolName \in PairTools, reply \in PairReplies}

InitTwo ==
    /\ store = ROLE_PERMISSIONS
    /\ call = NoCall
    /\ result = Pending
    /\ memo = NoMemo
    /\ session = NoSession
    /\ page = NoPage
    /\ peer = NoSession

FetchFirst ==
    /\ session.pc = "idle"
    /\ session' \in fetch(session)
    /\ UNCHANGED <<store, call, result, memo, page, peer>>

ConnectFirst ==
    /\ session.pc = "mounted"
    /\ session' = connect(session)
    /\ UNCHANGED <<store, call, result, memo, page, peer>>

InvokeFirst ==
    /\ session.pc = "ready"
    /\ session' \in invoke(session)
    /\ UNCHANGED <<store, call, result, memo, page, peer>>

FetchSecond ==
    /\ peer.pc = "idle"
    /\ peer' \in fetch(peer)
    /\ UNCHANGED <<store, call, result, memo, page, session>>

ConnectSecond ==
    /\ peer.pc = "mounted"
    /\ peer' = connect(peer)
    /\ UNCHANGED <<store, call, result, memo, page, session>>

InvokeSecond ==
    /\ peer.pc = "ready"
    /\ peer' \in invoke(peer)
    /\ UNCHANGED <<store, call, result, memo, page, session>>

NextTwo ==
    \/ FetchFirst
    \/ ConnectFirst
    \/ InvokeFirst
    \/ FetchSecond
    \/ ConnectSecond
    \/ InvokeSecond

SpecTwo == InitTwo /\ [][NextTwo]_vars

(***************************************************************************)
(* What the claims are stated with.                                        *)
(***************************************************************************)
\* the call has run
Done == result.kind # "pending"

\* the call returned the boolean b
ReturnsBool(b) ==
    /\ result.kind = "return"
    /\ result.value.t = "boolean"
    /\ result.value.b = b

\* The permission set the specification selects for role R: R's own entry
\* of the reference configuration, else the guest entry.
EntryFor(R) ==
    IF R \in DOMAIN ROLE_PERMISSIONS.own THEN ROLE_PERMISSIONS.own[R]
    ELSE ROLE_PERMISSIONS.own["guest"]

Elements(list) == {list.items[i] : i \in 1..Len(list.items)}

\* the schema rules of the permission set the call's role has in the store
RulesOfCall == Get(permissionsOf(call.args[1]), "schemas")

HasList(rules, name) ==
    /\ rules.t = "object"
    /\ name \in DOMAIN rules.own
    /\ rules.own[name].t = "array"

\* D matches at least one pattern of the list rules.name
MatchesSome(rules, name, D) ==
    /\ HasList(rules, name)
    /\ \E pattern \in Elements(rules.own[name]) : matchPattern(D, pattern)

(***************************************************************************)
(* Claims C1 to C10.                                                       *)
(***************************************************************************)
\* the role strings that name a property every object inherits
NamesInherited(R) == R = "__proto__" \/ R \in DOMAIN ObjectPrototype.own

\* C1: for every role string R and tool name T, hasToolPermission(R, T)
\* returns true exactly when T is an element (by string equality) of the
\* tools list of the permission set selected for R: R's own entry, else
\* the guest entry.
C1_ToolPermissionIsMembership ==
    (Done /\ call.fn = "hasToolPermission")
        => ReturnsBool(call.args[2] \in Elements(EntryFor(call.args[1]).own.tools))

\* C1 holds of every role string that names no inherited property.
C1_OnOrdinaryRoles ==
    (Done /\ call.fn = "hasToolPermission" /\ ~NamesInherited(call.args[1]))
        => ReturnsBool(call.args[2] \in Elements(EntryFor(call.args[1]).own.tools))

\* what the evaluator of the call returns for role guest and the same argument
ForGuest ==
    CASE call.fn = "hasToolPermission" -> hasToolPermission("guest", call.args[2])
      [] call.fn = "hasResourcePermission" -> hasResourcePermission("guest", call.args[2])
      [] call.fn = "hasSchemaPermission" -> hasSchemaPermission("guest", call.args[2])
      [] call.fn = "getFieldFilter" -> getFieldFilter("guest", call.args[2])
      [] call.fn = "getAllowedTools" -> getAllowedTools("guest")

FallbackEvaluators ==
    {"hasToolPermission", "hasResourcePermission", "hasSchemaPermission",
     "getFieldFilter", "getAllowedTools"}

\* C2: for every role string that is not a configured role, each evaluator
\* returns exactly what it returns for guest.
C2_UnknownRoleIsGuest ==
    (Done /\ call.fn \in FallbackEvaluators /\ call.args[1] \notin ConfiguredRoles)
        => result = ForGuest

\* C2 holds of every role string that names no inherited property.
C2_OnOrdinaryRoles ==
    (Done /\ call.fn \in FallbackEvaluators /\ call.args[1] \notin ConfiguredRoles
          /\ ~NamesInherited(call.args[1]))
        => result = ForGuest

\* the value is a filter descriptor {mode, fields}
IsDescriptor(v) ==
    /\ v.t = "object"
    /\ DOMAIN v.own = {"mode", "fields"}
    /\ v.own.mode.t = "string"
    /\ v.own.mode.s \in {"include", "exclude"}
    /\ v.own.fields.t = "array"

\* C3: no evaluator throws; each returns a value of its declared result
\* type, for every role string and every tool, resource or dataset-table
\* string.
C3_NeverThrowsAndTyped ==
    Done =>
        /\ call.fn \in {"hasToolPermission", "hasResourcePermission", "hasSchemaPermission"}
              => (result.kind = "return" /\ result.value.t = "boolean")
        /\ call.fn = "getFieldFilter"
              => (result.kind = "return"
                  /\ (result.value.t = "null" \/ IsDescriptor(result.value)))
        /\ call.fn = "getAllowedTools"
              => (result.kind = "return" /\ result.value.t = "array")
        /\ call.fn = "getRoleDescription"
              => (result.kind = "return" /\ result.value.t = "string")

\* C3 holds when neither the role nor the dataset-table names an inherited
\* property.
C3_OnOrdinaryNames ==
    (Done /\ call.fn \in FallbackEvaluators \cup {"getRoleDescription"}
          /\ ~NamesInherited(call.args[1])
          /\ (call.fn = "getFieldFilter" => ~NamesInherited(call.args[2])))
        => C3_NeverThrowsAndTyped

\* C4: deny precedence: a dataset-table that matches a pattern of
\* schemas.denied is refused, also when it matches a pattern of
\* schemas.allowed.
C4_DenyPrecedence ==
    (Done /\ call.fn = "hasSchemaPermission"
          /\ MatchesSome(RulesOfCall, "denied", call.args[2]))
        => ReturnsBool(FALSE)

C4_Witness ==
    /\ Done
    /\ call.fn = "hasSchemaPermission"
    /\ MatchesSome(RulesOfCall, "denied", call.args[2])
    /\ MatchesSome(RulesOfCall, "allowed", call.args[2])
    /\ ReturnsBool(FALSE)

\* the dataset-tables the reference configuration allows a viewer
ViewerAllowed(D) ==
    \/ (Len(D) >= 9 /\ SubSeq(D, 1, 9) = "products.")
    \/ D \in {"Flowdata.daily_sku_performance_90d",
              "Flowdata.daily_orders_aggregation",
              "Vendor.availability_summary"}

\* C5: the allow-list is closed-world: with schemas.allowed present (even
\* empty), a dataset-table no denied pattern matches is permitted iff it
\* matches an allowed pattern; for the viewer of the reference
\* configuration these are the dataset-tables starting with 'products.'
\* and the three named tables.
C5_AllowListClosedWorld ==
    (Done /\ call.fn = "hasSchemaPermission") =>
        /\ (HasList(RulesOfCall, "allowed")
            /\ ~MatchesSome(RulesOfCall, "denied", call.args[2]))
              => ReturnsBool(MatchesSome(RulesOfCall, "allowed", call.args[2]))
        /\ (store = ROLE_PERMISSIONS /\ call.args[1] = "viewer")
              => ReturnsBool(ViewerAllowed(call.args[2]))

C5_Witness ==
    /\ Done
    /\ store = ROLE_PERMISSIONS
    /\ call = [fn |-> "hasSchemaPermission", args |-> <<"viewer", "Flowdata.other_table">>]
    /\ ReturnsBool(FALSE)

\* C6: guest total denial: hasSchemaPermission is false for guest and for
\* every role string that is not a configured role, whatever the
\* dataset-table.
C6_GuestTotalDenial ==
    (Done /\ call.fn = "hasSchemaPermission"
          /\ (call.args[1] = "guest" \/ call.args[1] \notin ConfiguredRoles))
        => ReturnsBool(FALSE)

\* C6 holds of guest and of every unconfigured role string that names no
\* inherited property.
C6_OnOrdinaryRoles ==
    (Done /\ call.fn = "hasSchemaPermission"
          /\ (call.args[1] = "guest" \/ call.args[1] \notin ConfiguredRoles)
          /\ ~NamesInherited(call.args[1]))
        => ReturnsBool(FALSE)

\* the permission set of the call's role has no schema rules, or an empty
\* schema-rules object
NoSchemaRules ==
    \/ RulesOfCall.t = "undefined"
    \/ (RulesOfCall.t = "object" /\ DOMAIN RulesOfCall.own = {})

\* C7: no-restriction default: with no schema rules or an empty
\* schema-rules object (admin and no_role_assigned in the reference
\* configuration), hasSchemaPermission is true for every dataset-table.
C7_NoRulesNoRestriction ==
    (Done /\ call.fn = "hasSchemaPermission") =>
        /\ NoSchemaRules => ReturnsBool(TRUE)
        /\ call.args[1] \in {"admin", "no_role_assigned"} => ReturnsBool(TRUE)

C7_Witness ==
    /\ Done
    /\ call.fn = "hasSchemaPermission"
    /\ call.args[1] = "viewer"
    /\ RulesOfCall.t = "undefined"
    /\ call.args[2] = "*"
    /\ ReturnsBool(TRUE)

\* C8: matchPattern has three cases: '*' matches every text; a pattern
\* ending in '.*' matches the texts that start with the pattern less its
\* '*' (the prefix and a literal dot); any other pattern matches the text
\* equal to it.
C8_MatchPatternCases ==
    (Done /\ call.fn = "matchPattern") =>
        LET text == call.args[1]
            pattern == call.args[2]
            n == Len(pattern)
        IN  ReturnsBool(
              IF pattern = "*" THEN TRUE
              ELSE IF n >= 2 /\ SubSeq(pattern, n - 1, n) = ".*"
              THEN /\ Len(text) >= n - 1
                   /\ SubSeq(text, 1, n - 1) = SubSeq(pattern, 1, n - 1)
              ELSE text = pattern)

C8_Witness ==
    /\ call = [fn |-> "matchPattern", args |-> <<"UsersArchive.Accounts", "Users.*">>]
    /\ ReturnsBool(FALSE)

\* the examples the specification gives for the matcher
C8_Examples ==
    /\ matchPattern("Users.Accounts", "Users.*")
    /\ ~matchPattern("UsersArchive.Accounts", "Users.*")
    /\ matchPattern("anything", "*")
    /\ matchPattern("Users.Accounts", "Users.Accounts")
    /\ ~matchPattern("Users.Accounts", "Users.Account")
    /\ ~matchPattern("users.accounts", "Users.Accounts")

\* C9: getFieldFilter is an exact-key lookup: the descriptor
\* {mode: 'exclude', fields: ['Sourcing___Shipped_Revenue']} for
\* ('viewer', 'Vendor.Revenue'), and null for every other pair.
C9_FieldFilterExactKey ==
    (Done /\ call.fn = "getFieldFilter") =>
        IF call.args = <<"viewer", "Vendor.Revenue">>
        THEN result = Return(Obj([mode |-> Str("exclude"),
                                  fields |-> Arr(<<"Sourcing___Shipped_Revenue">>)]))
        ELSE result = Return(Null)

\* C9 holds when the dataset-table names no inherited property.
C9_OnOrdinaryTables ==
    (Done /\ call.fn = "getFieldFilter" /\ ~NamesInherited(call.args[2]))
        => C9_FieldFilterExactKey

\* text occurs in whole, as consecutive characters
Contains(whole, text) ==
    \E i \in 1..(Len(whole) - Len(text) + 1) :
        SubSeq(whole, i, i + Len(text) - 1) = text

\* the tools of the list, one line '- <tool>' each, in the list's order
RECURSIVE Rendered(_)
Rendered(list) ==
    IF list = <<>> THEN ""
    ELSE "- " \o Head(list) \o (IF Len(list) = 1 THEN "" ELSE "\n") \o Rendered(Tail(list))

\* C10: getAllowedTools(role) returns the tools of the role's permission
\* set in the declared order; a tool is in it iff hasToolPermission(role,
\* tool) is true; get_role renders this list, one line per tool, with the
\* role's description.
C10_AllowedToolsListed ==
    Done =>
        /\ call.fn = "getAllowedTools" =>
              /\ result = Return(EntryFor(call.args[1]).own.tools)
              /\ \A T \in ToolInputs :
                    (T \in Elements(result.value))
                        <=> (hasToolPermission(call.args[1], T) = Return(Bool(TRUE)))
        /\ call.fn = "get_role" =>
              /\ result.kind = "return"
              /\ result.value.t = "string"
              /\ EndsWith(result.value.s,
                          "\n\nAvailable Tools:\n"
                              \o Rendered(EntryFor(call.args[1]).own.tools.items))
              /\ Contains(result.value.s,
                          "\nRole Description: "
                              \o getRoleDescription(call.args[1]).value.s \o "\n")

\* C10 holds of every role string that names no inherited property.
C10_OnOrdinaryRoles ==
    (Done /\ call.fn \in {"getAllowedTools", "get_role"}
          /\ ~NamesInherited(call.args[1])) => C10_AllowedToolsListed

(***************************************************************************)
(* Claims C11 to C20.                                                      *)
(***************************************************************************)
\* C11: getRoleDescription returns the configured description of a
\* configured role and 'Unknown role' for every other role string.
C11_RoleDescription ==
    (Done /\ call.fn = "getRoleDescription") =>
        /\ store = ROLE_PERMISSIONS
        /\ result = Return(IF call.args[1] \in ConfiguredRoles
                           THEN descriptions.own[call.args[1]]
                           ELSE Str("Unknown role"))

\* C11 holds of every role string that names no inherited property.
C11_OnOrdinaryRoles ==
    (Done /\ call.fn = "getRoleDescription" /\ ~NamesInherited(call.args[1]))
        => C11_RoleDescription

\* the tools the reference configuration is said to permit a role
SaidPermitted(role) ==
    CASE role \in {"admin", "no_role_assigned"} -> AllTools
      [] role = "analyst" -> AllTools \ {"get_user_data"}
      [] role = "viewer" -> {"get_role", "get_schema_table_view", "execute_query",
                             "list_dashboards", "get_dashboard"}
      [] role = "guest" -> {"get_role"}

RECURSIVE NoDot(_)
NoDot(text) ==
    \/ text = ""
    \/ (SubSeq(text, 1, 1) # "." /\ NoDot(SubSeq(text, 2, Len(text))))

\* an identifier that names nothing: a tool or resource that is none of
\* the server's, a dataset-table that is empty or has no dot
UnknownArgument ==
    CASE call.fn = "hasToolPermission" -> call.args[2] \notin AllTools
      [] call.fn = "hasResourcePermission" -> call.args[2] # "bigquery_catalog"
      [] call.fn = "hasSchemaPermission" -> NoDot(call.args[2])
      [] OTHER -> FALSE

\* C13: for every role, hasToolPermission, hasResourcePermission and
\* hasSchemaPermission return false for a tool, resource or dataset-table
\* that does not exist or is malformed.
C13_UnknownIsRefused ==
    (Done /\ UnknownArgument) => ReturnsBool(FALSE)

\* C13 as amended: an unknown tool or resource is refused (false) for every
\* role string, save that the call throws for a role string naming an
\* inherited property; a dataset-table without a dot is refused for viewer,
\* guest and the unconfigured role strings, and permitted for admin,
\* analyst, no_role_assigned and the role strings naming an inherited
\* property.
C13_UnknownIsRefusedWhereRulesDeny ==
    (Done /\ UnknownArgument) =>
        IF call.fn = "hasSchemaPermission"
        THEN ReturnsBool(call.args[1] \in {"admin", "analyst", "no_role_assigned"}
                         \/ NamesInherited(call.args[1]))
        ELSE IF NamesInherited(call.args[1])
        THEN result.kind = "throw"
        ELSE ReturnsBool(FALSE)

C13_Witness ==
    /\ call = [fn |-> "hasSchemaPermission", args |-> <<"viewer", "no_dot">>]
    /\ ReturnsBool(FALSE)

\* C20: get_user_data is admin only: hasToolPermission(R, 'get_user_data')
\* is true only for R = 'admin', whatever role string a request resolves to.
C20_UserDataAdminOnly ==
    (Done /\ call.fn = "hasToolPermission" /\ call.args[2] = "get_user_data"
          /\ ReturnsBool(TRUE))
        => call.args[1] = "admin"

\* C14: after any sequence of evaluator calls the store is unchanged, and
\* a call with the arguments of an earlier call returns what that earlier
\* call returned.
C14_StoreUnchangedResultsRepeat ==
    /\ store = ROLE_PERMISSIONS
    /\ (Done /\ memo.call = call) => result = memo.result

C14_Witness ==
    /\ Done
    /\ memo.call = call
    /\ call = [fn |-> "getAllowedTools", args |-> <<"viewer">>]

\* hasToolPermission(role, toolName) is true
Permitted(role, toolName) == hasToolPermission(role, toolName) = Return(Bool(TRUE))

\* C15: once the agent is initialised for a request resolved to role R, a
\* tool is registered only if hasToolPermission(R, tool) is true, and no
\* tool for which it is not is callable.
C15_RegisteredOnlyIfPermitted ==
    session.pc = "ready" =>
        /\ \A i \in 1..Len(session.agent.tools) :
              Permitted(session.role, session.agent.tools[i])
        /\ (session.invoked # "" /\ session.response.kind = "result")
              => Permitted(session.role, session.invoked)

AccessDenied(role, toolName) ==
    "Access denied: Your role '" \o role \o "' does not have permission to use the '"
    \o toolName \o "' tool."

\* C16: the invocation of a registered tool the request's role is not
\* permitted runs no handler and makes no backend request, and is answered
\* by a tool result with the 'Access denied' text.
C16_DeniedAtInvocation ==
    (/\ Includes(session.agent.tools, session.invoked)
     /\ ~Permitted(session.role, session.invoked)) =>
        /\ session.response = [kind |-> "result",
                               text |-> AccessDenied(session.role, session.invoked)]
        /\ session.requests = <<>>

\* C17: after DynamicMCP.init() for a request resolved to role R, the
\* agent's role is R, and get_role reports R.
C17_RoleKeptThroughInit ==
    session.pc = "ready" =>
        /\ session.agent.role = session.role
        /\ session.invoked = "get_role" =>
              session.response.text = "Current MCP Server Role: " \o session.role

\* the parameter or header is present and not empty
Present(v) == v.t = "string" /\ v.s # ""

SaidResolved(query, header) ==
    IF Present(query) THEN query.s
    ELSE IF Present(header) THEN header.s
    ELSE "no_role_assigned"

C19_RoleTableMatchesStore ==
    page.status = 200 =>
        \A role \in DOMAIN page.html.roleTable :
            page.html.roleTable[role] = {t \in AllTools : Permitted(role, t)}

(***************************************************************************)
(* Claims C21 to C30.                                                      *)
(***************************************************************************)
\* hasSchemaPermission(role, datasetTable) is true
SchemaPermitted(role, datasetTable) ==
    hasSchemaPermission(role, datasetTable) = Return(Bool(TRUE))

\* C21: the get_schema_table_view handler of a session with role R asks the
\* backend for the schema of dataset-table D, and delivers it, only if
\* hasSchemaPermission(R, D) is true.
C21_SchemaRulesOnDataPath ==
    (Done /\ call.fn = "get_schema_table_view"
          /\ result.value.requests # <<>>)
        => SchemaPermitted(call.args[1], call.args[2])

\* C22: where getFieldFilter(role, table) returns a descriptor, the schema
\* delivered to the role for the table holds no field the descriptor lists
\* when its mode is 'exclude', and only fields it lists when its mode is
\* 'include'; a viewer never receives Sourcing___Shipped_Revenue of
\* Vendor.Revenue.
C22_FieldFilterApplied ==
    (Done /\ call.fn = "get_schema_table_view" /\ call.args[3].kind = "ok") =>
        LET filter == getFieldFilter(call.args[1], call.args[2]).value
            text == result.value.response.text
            delivered == {f \in Elements(Arr(call.args[3].fields)) :
                            Contains(text, "\"" \o f \o "\"")}
        IN  IsDescriptor(filter) =>
                IF filter.own.mode = Str("exclude")
                THEN delivered \cap Elements(filter.own.fields) = {}
                ELSE delivered \subseteq Elements(filter.own.fields)

NoTokenText ==
    "Error: No authentication token provided. Please configure MCP with an auth token."

\* C24: get_user_data never throws; without an auth token (absent or
\* empty) it answers 'No authentication token provided' and makes no
\* backend request; when the backend call fails, a message containing
\* '404' gives 'User not found', else one containing '401' gives
\* 'Authentication failed', else the 'Error retrieving user data' text.
C24_UserDataNeedsToken ==
    (Done /\ call.fn = "get_user_data") =>
        LET authToken == call.args[1]
            reply == call.args[2]
            text == result.value.response.text
            message == callFastAPI(reply).message
        IN  /\ result.kind = "return"
            /\ (authToken = Undefined \/ authToken = Str("")) =>
                  (text = NoTokenText /\ result.value.requests = <<>>)
            /\ (Present(authToken) /\ reply.kind # "ok") =>
                  text = IF Contains(message, "404")
                         THEN "Error: User not found. The provided token may be invalid."
                         ELSE IF Contains(message, "401")
                         THEN "Error: Authentication failed. Please check your token configuration."
                         ELSE "Error retrieving user data: " \o message

C24_Witness ==
    /\ Done
    /\ call.fn = "get_user_data"
    /\ call.args[1] = Str("token")
    /\ call.args[2] = [kind |-> "status", status |-> 401, detail |-> "token 404"]
    /\ result.value.response.text
          = "Error: User not found. The provided token may be invalid."

\* the parts of C25 that do not concern how a status that is not OK shows
CallFastAPIContract ==
    LET reply == call.args[4]
    IN  /\ result.request.body # Undefined =>
              (call.args[3] # Undefined /\ result.request.method # "GET")
        /\ result.kind = "return" => (ok(reply) /\ result.value.value = reply)
        /\ reply.kind # "ok" =>
              /\ result.kind = "throw"
              /\ StartsWith(result.value.message, "Failed to call FastAPI: ")

\* C25: callFastAPI sends a body only when one is given and the method is
\* not GET; it returns the parsed body only of an OK response, and
\* otherwise throws an Error whose message starts with 'Failed to call
\* FastAPI: ', in which a status that is not OK shows as
\* 'API Error: <status> - ...'.
C25_CallFastAPI ==
    (Done /\ call.fn = "callFastAPI") =>
        /\ CallFastAPIContract
        /\ ~ok(call.args[4]) /\ call.args[4].kind # "network" =>
              Contains(result.value.message,
                       "API Error: " \o decimal(call.args[4].status) \o " - ")

\* C25 as amended: a status that is not OK shows as 'API Error: <status> -
\* ...' when the body of the response parses as JSON; when it does not, the
\* message is that of the parse error and does not name the status.
C25_CallFastAPIParsedStatus ==
    (Done /\ call.fn = "callFastAPI") =>
        /\ CallFastAPIContract
        /\ call.args[4].kind = "status" =>
              Contains(result.value.message,
                       "API Error: " \o decimal(call.args[4].status) \o " - ")
        /\ call.args[4].kind = "unparsable" =>
              result.value.message = "Failed to call FastAPI: " \o ParseMessage

C25_Witness ==
    /\ Done
    /\ call.fn = "callFastAPI"
    /\ call.args[4] = [kind |-> "unparsable", status |-> 502]
    /\ result.kind = "throw"
    /\ result.request.body = Undefined

\* hasResourcePermission(role, resourceName) is true
ResourcePermitted(role, resourceName) ==
    hasResourcePermission(role, resourceName) = Return(Bool(TRUE))

\* the next role up in the order guest, viewer, analyst, admin
NextRoleUp(role) ==
    CASE role = "guest" -> "viewer"
      [] role = "viewer" -> "analyst"
      [] role = "analyst" -> "admin"

\* the tools and resources permitted to a role are permitted to the next role up
Nested ==
    /\ (call.fn = "hasToolPermission" /\ call.args[1] \in {"guest", "viewer", "analyst"}
            /\ ReturnsBool(TRUE))
          => Permitted(NextRoleUp(call.args[1]), call.args[2])
    /\ (call.fn = "hasResourcePermission" /\ call.args[1] \in {"guest", "viewer", "analyst"}
            /\ ReturnsBool(TRUE))
          => ResourcePermitted(NextRoleUp(call.args[1]), call.args[2])

\* C27: every tool and every resource permitted to guest is permitted to
\* viewer, to viewer is permitted to analyst, to analyst is permitted to
\* admin; get_role is permitted to every role string.
C27_ToolsNested ==
    Done =>
        /\ Nested
        /\ (call.fn = "hasToolPermission" /\ call.args[2] = "get_role")
              => ReturnsBool(TRUE)

\* C27 holds of every role string that names no inherited property.
C27_OnOrdinaryRoles ==
    (Done /\ call.fn \in {"hasToolPermission", "hasResourcePermission"}
          /\ ~NamesInherited(call.args[1])) => C27_ToolsNested

\* C28: for every dataset-table D, hasSchemaPermission('guest', D) implies
\* hasSchemaPermission('viewer', D), which implies
\* hasSchemaPermission('analyst', D), which implies
\* hasSchemaPermission('admin', D).
C28_SchemaNested ==
    (Done /\ call.fn = "hasSchemaPermission"
          /\ call.args[1] \in {"guest", "viewer", "analyst"} /\ ReturnsBool(TRUE))
        => SchemaPermitted(NextRoleUp(call.args[1]), call.args[2])

C28_Witness ==
    /\ call = [fn |-> "hasSchemaPermission", args |-> <<"viewer", "products.Produkt">>]
    /\ ReturnsBool(TRUE)
    /\ SchemaPermitted("analyst", "products.Produkt")

\* C29: for every role R and dataset-table D for which getFieldFilter(R, D)
\* returns a descriptor, hasSchemaPermission(R, D) is true.
C29_FieldFilterReachable ==
    (Done /\ call.fn = "getFieldFilter" /\ IsDescriptor(result.value))
        => SchemaPermitted(call.args[1], call.args[2])

\* how the failure text of a tool begins
FailureText(toolName) ==
    CASE toolName = "get_schema_table_view" -> "Failed to get schema: "
      [] toolName = "execute_query" -> "Failed to execute query: "
      [] toolName = "upload_dashboard" -> "Failed to upload dashboard: "
      [] toolName = "list_dashboards" -> "Failed to list dashboards: "
      [] toolName = "get_dashboard" -> "Failed to get dashboard: "

\* C23: whenever the backend call of a tool, resource or prompt handler
\* fails (network error, no JSON, status not OK), the handler returns a
\* normal result whose text carries the failure message; no exception
\* leaves a handler.
C23_FailuresAreResults ==
    /\ session.invoked # "" => session.response.kind # "exception"
    /\ (session.invoked # "" /\ session.reply # Null /\ session.reply.kind # "ok") =>
          CASE session.invoked = "bigquery_catalog" ->
                  /\ session.response.kind = "contents"
                  /\ Contains(session.response.text,
                              "\"error\": \"Could not fetch BigQuery catalog\"")
            [] session.invoked = "BI Analyst & Dashboard Builder" ->
                  /\ session.response.kind = "messages"
                  /\ Contains(session.response.text,
                              "**Note:** Unable to fetch BigQuery catalog.")
            [] OTHER ->
                  /\ session.response.kind = "result"
                  /\ StartsWith(session.response.text, FailureText(session.invoked))

C23_Witness ==
    /\ session.invoked = "upload_dashboard"
    /\ session.reply = [kind |-> "unparsable", status |-> 200]
    /\ session.response.text = "Failed to upload dashboard: " \o ParseMessage

\* C30: a session whose role is refused the resource bigquery_catalog is
\* not given the catalog, by the resource or by the prompt, and the
\* backend's /bigquery/list_datasets_tables is not requested for it.
C30_CatalogGated ==
    (/\ session.invoked \in {"bigquery_catalog", "BI Analyst & Dashboard Builder"}
     /\ ~ResourcePermitted(session.role, "bigquery_catalog")) =>
        /\ session.requests = <<>>
        /\ session.reply = Null

\* the response of get_role names this role
RoleReported(s, role) ==
    s.response.text = "Current MCP Server Role: " \o role

\* C26: of two requests served in any interleaving whose resolved roles R1
\* and R2 differ, every get_role response of the first names R1 and never
\* R2, and every get_role response of the second names R2 and never R1.
C26_RequestIsolation ==
    (/\ session.pc # "idle"
     /\ peer.pc # "idle"
     /\ session.role # peer.role) =>
        /\ session.invoked = "get_role" =>
              (RoleReported(session, session.role) /\ ~RoleReported(session, peer.role))
        /\ peer.invoked = "get_role" =>
              (RoleReported(peer, peer.role) /\ ~RoleReported(peer, session.role))

\* each get_role response names the role field of the request's own agent,
\* whatever the other request resolved or did
C26_OwnAgent ==
    /\ session.invoked = "get_role" => RoleReported(session, session.agent.role)
    /\ peer.invoked = "get_role" => RoleReported(peer, peer.agent.role)

====
